---- MODULE Spec2Model ----
(***************************************************************************)
(* Model of the QuantumEmbeddings classes: BasisEmbedding, AngleEmbedding, *)
(* DisplacementEmbedding / DisplacementGate and SqueezingEmbedding /       *)
(* SqueezingGate.  A caller constructs one embedding object, invokes its   *)
(* circuit-producing method, and may append gates to the circuits it got.  *)
(* Circuits live in a heap (circuits) and are handled by reference, as     *)
(* Python objects are.  Loops are executed one iteration per step.         *)
(***************************************************************************)
EXTENDS Integers, Sequences, FiniteSets, TLC

----------------------------------------------------------------------------
(* Bounds of the model *)

MaxQubits == 3
MaxNegQubits == 1
MaxLayers == 3
MaxCalls == 2
MaxAppends == 1
MaxInverse == 3
MaxTurns == 2

----------------------------------------------------------------------------
(* Values *)

\* Fixed-point unit for real numbers: one unit is 1/1000 radian.
PI == 3142
TwoPi == 2 * PI
Fixed == 100

\* The valid gate names of AngleEmbedding.__init__.
valid_gates == {"RY", "RZ", "RX"}

\* Entries a caller may put in the gate_sequence list: the valid names, a
\* string that is no valid name, a valid name in the wrong case, and a
\* value that is not a string at all.
NonStrEntries == {"<int 1>"}
GateEntries == valid_gates \cup {"CX", "rx"} \cup NonStrEntries

isinstance_str(gate) == gate \notin NonStrEntries

Schemes == {"BasisEmbedding", "AngleEmbedding", "DisplacementEmbedding", "SqueezingEmbedding"}
CVSchemes == {"DisplacementEmbedding", "SqueezingEmbedding"}

NumQubitsArgs == (0 - MaxNegQubits)..MaxQubits

RECURSIVE SeqsUpTo(_, _)
SeqsUpTo(S, n) == IF n = 0 THEN {<<>>}
                  ELSE LET shorter == SeqsUpTo(S, n - 1)
                       IN shorter \cup {Append(s, e) : s \in {t \in shorter : Len(t) = n - 1}, e \in S}

GateSequenceArgs == SeqsUpTo(GateEntries, MaxLayers)

\* Parameter expressions: an element x[i] of the ParameterVector named 'x',
\* the product np.pi * x[i], and a float literal (in fixed-point units).
ParameterVectorElement(i) == <<"x", i>>
PiTimes(p) == <<"pi*" \o p[1], p[2]>>
Literal(v) == <<"float", v>>

None == [cls |-> "None"]
NoRef == 0
NoFrame == [fn |-> "none", layer |-> 0, j |-> 0, index |-> 0, qc |-> NoRef]
NoCall == [cls |-> "None", num_qubits |-> 0, gate_sequence |-> <<>>, flag |-> FALSE]
NoGate == [name |-> "none", params |-> <<0, 0>>]

VARIABLES pc, call, self, raised, frame, circuits, held, results, appends,
          gate, gate0, inverses

vars == <<pc, call, self, raised, frame, circuits, held, results, appends,
          gate, gate0, inverses>>

embVars == <<pc, call, self, raised, frame, circuits, held, results, appends>>
gateVars == <<gate, gate0, inverses>>

----------------------------------------------------------------------------
(* The circuit host: QuantumCircuit objects in a heap *)

\* QuantumCircuit(n): a register of negative size is refused by the host.
QuantumCircuitRaises(n) == n < 0

QuantumCircuit(n) == [num_qubits |-> n, data |-> <<>>]

\* circuit.append / circuit.rx / ... : one instruction at the end of data.
AppendInstruction(circ, name, params, qubit) ==
    [circ EXCEPT !.data = Append(@, [gate |-> name, params |-> params, qubit |-> qubit])]

----------------------------------------------------------------------------
(* ParameterVector('x', length): elements x[0] .. x[length-1] *)

ParameterVector(length) == [i \in 0..(length - 1) |-> ParameterVectorElement(i)]

\* An embedding object.  Attributes a class does not have keep a default.
Object(cls, num_qubits) ==
    [cls |-> cls, num_qubits |-> num_qubits, gate_sequence |-> <<>>,
     repeat_parameters |-> FALSE, amplitude |-> FALSE,
     parameters |-> ParameterVector(0), circuit |-> NoRef]

Frame(fn, qc) == [fn |-> fn, layer |-> 1, j |-> 0, index |-> 0, qc |-> qc]

----------------------------------------------------------------------------
(* BasisEmbedding *)

BasisInitRaises(num_qubits) == num_qubits <= 0

\* Variant of BasisParam that drops the factor np.pi.
BasisParamWithoutPi(s, qubit) == s.parameters[qubit]

\* np.pi * self.params[qubit]
BasisParam(s, qubit) == PiTimes(s.parameters[qubit])

\* One iteration of the loop of BasisEmbedding.create_circuit.
BasisCreateCircuitBody(s, fr, circ) ==
    AppendInstruction(circ, "rx", <<BasisParam(s, fr.j)>>, fr.j)

\* BasisEmbedding(num_qubits): validates, stores the attributes and enters
\* create_circuit, whose result becomes self.circuit.
BasisInit ==
    /\ pc = "start"
    /\ \E num_qubits \in NumQubitsArgs :
         /\ call' = [NoCall EXCEPT !.cls = "BasisEmbedding", !.num_qubits = num_qubits]
         /\ IF BasisInitRaises(num_qubits)
            THEN /\ raised' = "QiskitError"
                 /\ pc' = "failed"
                 /\ UNCHANGED <<self, frame, circuits>>
            ELSE /\ self' = [Object("BasisEmbedding", num_qubits)
                               EXCEPT !.parameters = ParameterVector(num_qubits)]
                 /\ circuits' = Append(circuits, QuantumCircuit(num_qubits))
                 /\ frame' = Frame("BasisEmbedding.create_circuit", Len(circuits) + 1)
                 /\ pc' = "init"
                 /\ UNCHANGED raised
    /\ UNCHANGED <<held, results, appends, gateVars>>

BasisCreateCircuitStep ==
    /\ pc = "init"
    /\ frame.fn = "BasisEmbedding.create_circuit"
    /\ frame.j < self.num_qubits
    /\ circuits' = [circuits EXCEPT ![frame.qc] = BasisCreateCircuitBody(self, frame, @)]
    /\ frame' = [frame EXCEPT !.j = @ + 1]
    /\ UNCHANGED <<pc, call, self, raised, held, results, appends, gateVars>>

\* create_circuit returns qc to __init__, which stores it in self.circuit.
BasisCreateCircuitReturn ==
    /\ pc = "init"
    /\ frame.fn = "BasisEmbedding.create_circuit"
    /\ frame.j >= self.num_qubits
    /\ self' = [self EXCEPT !.circuit = frame.qc]
    /\ frame' = NoFrame
    /\ pc' = "ready"
    /\ UNCHANGED <<call, raised, circuits, held, results, appends, gateVars>>

\* get_circuit returns self.circuit, the object made by __init__.
get_circuit ==
    /\ pc = "ready"
    /\ self.cls = "BasisEmbedding"
    /\ Len(held) < MaxCalls
    /\ held' = Append(held, self.circuit)
    /\ results' = Append(results, circuits[self.circuit])
    /\ UNCHANGED <<pc, call, self, raised, frame, circuits, appends, gateVars>>

----------------------------------------------------------------------------
(* AngleEmbedding *)

\* Variant of AngleInitRaises that looks at the first entry only.
AngleInitRaisesFirstOnly(gate_sequence, num_qubits) ==
    \/ ~ \A k \in 1..Len(gate_sequence) : isinstance_str(gate_sequence[k])
    \/ num_qubits <= 0
    \/ (Len(gate_sequence) > 0 /\ gate_sequence[1] \notin valid_gates)

\* The three checks of AngleEmbedding.__init__, in the order of the code.
\* gate_sequence ranges over Python lists, so isinstance(gate_sequence,
\* list) holds; its entries may be anything.
AngleInitRaises(gate_sequence, num_qubits) ==
    \/ ~ \A k \in 1..Len(gate_sequence) : isinstance_str(gate_sequence[k])
    \/ num_qubits <= 0
    \/ \E k \in 1..Len(gate_sequence) : gate_sequence[k] \notin valid_gates

AngleInit ==
    /\ pc = "start"
    /\ \E gate_sequence \in GateSequenceArgs, num_qubits \in NumQubitsArgs,
          repeat_parameters \in BOOLEAN :
         /\ call' = [cls |-> "AngleEmbedding", num_qubits |-> num_qubits,
                     gate_sequence |-> gate_sequence, flag |-> repeat_parameters]
         /\ IF AngleInitRaises(gate_sequence, num_qubits)
            THEN /\ raised' = "QiskitError"
                 /\ pc' = "failed"
                 /\ UNCHANGED self
            ELSE /\ self' = [Object("AngleEmbedding", num_qubits)
                               EXCEPT !.gate_sequence = gate_sequence,
                                      !.repeat_parameters = repeat_parameters]
                 /\ pc' = "ready"
                 /\ UNCHANGED raised
    /\ UNCHANGED <<frame, circuits, held, results, appends, gateVars>>

\* x_length and x of _layer_sequence.
x_length(s) == IF s.repeat_parameters THEN s.num_qubits
               ELSE s.num_qubits * Len(s.gate_sequence)

LayerSequenceX(s) == ParameterVector(x_length(s))

\* param = x[j] if self.repeat_parameters else x[index]
LayerSequenceParam(s, fr) ==
    IF s.repeat_parameters THEN LayerSequenceX(s)[fr.j] ELSE LayerSequenceX(s)[fr.index]

\* Variant of LayerSequenceEmit without the branch for 'RX'.
LayerSequenceEmitNoRX(circ, g, param, j) ==
    IF g = "RY" THEN AppendInstruction(circ, "ry", <<param>>, j)
    ELSE IF g = "RZ" THEN AppendInstruction(circ, "rz", <<param>>, j)
    ELSE circ

\* The if / elif chain that emits the gate of one (layer, qubit) iteration.
LayerSequenceEmit(circ, g, param, j) ==
    IF g = "RY" THEN AppendInstruction(circ, "ry", <<param>>, j)
    ELSE IF g = "RZ" THEN AppendInstruction(circ, "rz", <<param>>, j)
    ELSE IF g = "RX" THEN AppendInstruction(circ, "rx", <<param>>, j)
    ELSE circ

\* Variant of LayerSequenceIndex that restarts the index with every layer.
LayerSequenceIndexResetPerLayer(s, fr) ==
    IF ~ s.repeat_parameters
    THEN (IF fr.j + 1 < s.num_qubits THEN fr.index + 1 ELSE 0)
    ELSE fr.index

\* Variant of LayerSequenceIndex that forgets the increment.
LayerSequenceIndexNoIncrement(s, fr) == fr.index

\* if not self.repeat_parameters: index += 1
LayerSequenceIndex(s, fr) ==
    IF ~ s.repeat_parameters THEN fr.index + 1 ELSE fr.index

\* The position of the next iteration of the nested for loops.
LayerSequenceAdvance(s, fr) ==
    IF fr.j + 1 < s.num_qubits
    THEN [fr EXCEPT !.j = @ + 1]
    ELSE [fr EXCEPT !.layer = @ + 1, !.j = 0]

LayerSequenceCall ==
    /\ pc = "ready"
    /\ self.cls = "AngleEmbedding"
    /\ Len(held) < MaxCalls
    /\ IF QuantumCircuitRaises(self.num_qubits)
       THEN /\ raised' = "CircuitError"
            /\ pc' = "error"
            /\ UNCHANGED <<frame, circuits>>
       ELSE /\ circuits' = Append(circuits, QuantumCircuit(self.num_qubits))
            /\ frame' = Frame("AngleEmbedding._layer_sequence", Len(circuits) + 1)
            /\ pc' = "call"
            /\ UNCHANGED raised
    /\ UNCHANGED <<call, self, held, results, appends, gateVars>>

LayerSequenceStep ==
    /\ pc = "call"
    /\ frame.fn = "AngleEmbedding._layer_sequence"
    /\ frame.layer <= Len(self.gate_sequence)
    /\ frame.j < self.num_qubits
    /\ circuits' = [circuits EXCEPT ![frame.qc] =
                      LayerSequenceEmit(@, self.gate_sequence[frame.layer],
                                        LayerSequenceParam(self, frame), frame.j)]
    /\ frame' = [LayerSequenceAdvance(self, frame)
                   EXCEPT !.index = LayerSequenceIndex(self, frame)]
    /\ UNCHANGED <<pc, call, self, raised, held, results, appends, gateVars>>

LayerSequenceReturn ==
    /\ pc = "call"
    /\ frame.fn = "AngleEmbedding._layer_sequence"
    /\ frame.layer > Len(self.gate_sequence)
    /\ held' = Append(held, frame.qc)
    /\ results' = Append(results, circuits[frame.qc])
    /\ frame' = NoFrame
    /\ pc' = "ready"
    /\ UNCHANGED <<call, self, raised, circuits, appends, gateVars>>

----------------------------------------------------------------------------
(* DisplacementEmbedding *)

\* DisplacementEmbedding(num_qubits, amplitude): stores its arguments; there is
\* no check of num_qubits.  ParameterVector('x', length) of a length <= 0
\* has no elements.
DisplacementInit ==
    /\ pc = "start"
    /\ \E num_qubits \in NumQubitsArgs, amplitude \in BOOLEAN :
         /\ call' = [NoCall EXCEPT !.cls = "DisplacementEmbedding",
                                   !.num_qubits = num_qubits, !.flag = amplitude]
         /\ self' = [Object("DisplacementEmbedding", num_qubits)
                       EXCEPT !.amplitude = amplitude,
                              !.parameters = ParameterVector(num_qubits)]
         /\ pc' = "ready"
    /\ UNCHANGED <<raised, frame, circuits, held, results, appends, gateVars>>

\* Variant of DisplacementGateParams with the two branches exchanged.
DisplacementGateParamsSwapped(s, i) ==
    IF s.amplitude
    THEN <<Literal(Fixed), s.parameters[i]>>
    ELSE <<s.parameters[i], Literal(Fixed)>>

\* The (amplitude, phase) pair of one iteration of create_circuit.
DisplacementGateParams(s, i) ==
    IF s.amplitude
    THEN <<s.parameters[i], Literal(Fixed)>>
    ELSE <<Literal(Fixed), s.parameters[i]>>

DisplacementCreateCircuitBody(s, fr, circ) ==
    AppendInstruction(circ, "D", DisplacementGateParams(s, fr.j), fr.j)

DisplacementCreateCircuitCall ==
    /\ pc = "ready"
    /\ self.cls = "DisplacementEmbedding"
    /\ Len(held) < MaxCalls
    /\ IF QuantumCircuitRaises(self.num_qubits)
       THEN /\ raised' = "CircuitError"
            /\ pc' = "error"
            /\ UNCHANGED <<frame, circuits>>
       ELSE /\ circuits' = Append(circuits, QuantumCircuit(self.num_qubits))
            /\ frame' = Frame("DisplacementEmbedding.create_circuit", Len(circuits) + 1)
            /\ pc' = "call"
            /\ UNCHANGED raised
    /\ UNCHANGED <<call, self, held, results, appends, gateVars>>

DisplacementCreateCircuitStep ==
    /\ pc = "call"
    /\ frame.fn = "DisplacementEmbedding.create_circuit"
    /\ frame.j < self.num_qubits
    /\ circuits' = [circuits EXCEPT ![frame.qc] = DisplacementCreateCircuitBody(self, frame, @)]
    /\ frame' = [frame EXCEPT !.j = @ + 1]
    /\ UNCHANGED <<pc, call, self, raised, held, results, appends, gateVars>>

DisplacementCreateCircuitReturn ==
    /\ pc = "call"
    /\ frame.fn = "DisplacementEmbedding.create_circuit"
    /\ frame.j >= self.num_qubits
    /\ held' = Append(held, frame.qc)
    /\ results' = Append(results, circuits[frame.qc])
    /\ frame' = NoFrame
    /\ pc' = "ready"
    /\ UNCHANGED <<call, self, raised, circuits, appends, gateVars>>

----------------------------------------------------------------------------
(* SqueezingEmbedding *)

\* SqueezingEmbedding(num_qubits, amplitude): stores its arguments; there is
\* no check of num_qubits.  ParameterVector('x', length) of a length <= 0
\* has no elements.
SqueezingInit ==
    /\ pc = "start"
    /\ \E num_qubits \in NumQubitsArgs, amplitude \in BOOLEAN :
         /\ call' = [NoCall EXCEPT !.cls = "SqueezingEmbedding",
                                   !.num_qubits = num_qubits, !.flag = amplitude]
         /\ self' = [Object("SqueezingEmbedding", num_qubits)
                       EXCEPT !.amplitude = amplitude,
                              !.parameters = ParameterVector(num_qubits)]
         /\ pc' = "ready"
    /\ UNCHANGED <<raised, frame, circuits, held, results, appends, gateVars>>

\* Variant of SqueezingGateParams with the two branches exchanged.
SqueezingGateParamsSwapped(s, i) ==
    IF s.amplitude
    THEN <<Literal(Fixed), s.parameters[i]>>
    ELSE <<s.parameters[i], Literal(Fixed)>>

\* The (r, phi) pair of one iteration of create_circuit.
SqueezingGateParams(s, i) ==
    IF s.amplitude
    THEN <<s.parameters[i], Literal(Fixed)>>
    ELSE <<Literal(Fixed), s.parameters[i]>>

SqueezingCreateCircuitBody(s, fr, circ) ==
    AppendInstruction(circ, "S", SqueezingGateParams(s, fr.j), fr.j)

SqueezingCreateCircuitCall ==
    /\ pc = "ready"
    /\ self.cls = "SqueezingEmbedding"
    /\ Len(held) < MaxCalls
    /\ IF QuantumCircuitRaises(self.num_qubits)
       THEN /\ raised' = "CircuitError"
            /\ pc' = "error"
            /\ UNCHANGED <<frame, circuits>>
       ELSE /\ circuits' = Append(circuits, QuantumCircuit(self.num_qubits))
            /\ frame' = Frame("SqueezingEmbedding.create_circuit", Len(circuits) + 1)
            /\ pc' = "call"
            /\ UNCHANGED raised
    /\ UNCHANGED <<call, self, held, results, appends, gateVars>>

SqueezingCreateCircuitStep ==
    /\ pc = "call"
    /\ frame.fn = "SqueezingEmbedding.create_circuit"
    /\ frame.j < self.num_qubits
    /\ circuits' = [circuits EXCEPT ![frame.qc] = SqueezingCreateCircuitBody(self, frame, @)]
    /\ frame' = [frame EXCEPT !.j = @ + 1]
    /\ UNCHANGED <<pc, call, self, raised, held, results, appends, gateVars>>

SqueezingCreateCircuitReturn ==
    /\ pc = "call"
    /\ frame.fn = "SqueezingEmbedding.create_circuit"
    /\ frame.j >= self.num_qubits
    /\ held' = Append(held, frame.qc)
    /\ results' = Append(results, circuits[frame.qc])
    /\ frame' = NoFrame
    /\ pc' = "ready"
    /\ UNCHANGED <<call, self, raised, circuits, appends, gateVars>>

----------------------------------------------------------------------------
(* The caller *)

\* The caller appends a gate (circuit.h(0)) to a circuit it got earlier.
CallerAppend ==
    /\ pc = "ready"
    /\ appends < MaxAppends
    /\ \E k \in 1..Len(held) :
         /\ circuits[held[k]].num_qubits > 0
         /\ circuits' = [circuits EXCEPT ![held[k]] = AppendInstruction(@, "h", <<>>, 0)]
    /\ appends' = appends + 1
    /\ UNCHANGED <<pc, call, self, raised, frame, held, results, gateVars>>

----------------------------------------------------------------------------
(* DisplacementGate and SqueezingGate *)

\* Variant of PyMod that truncates: the result has the sign of the dividend.
FMod(a, b) == IF a >= 0 THEN a % b ELSE 0 - ((0 - a) % b)

\* Python's % on numbers: the result has the sign of the divisor.
PyMod(a, b) == a - b * (a \div b)

DisplacementGate(a, phi) == [name |-> "D", params |-> <<a, phi>>]
SqueezingGate(r, phi) == [name |-> "S", params |-> <<r, phi>>]

DisplacementGateInverse(g) ==
    LET a == g.params[1]
        phi == g.params[2]
        new_phi == PyMod(phi + PI, TwoPi)
    IN DisplacementGate(a, new_phi)

SqueezingGateInverse(g) ==
    LET r == g.params[1]
        phi == g.params[2]
        new_phi == PyMod(phi + PI, TwoPi)
    IN SqueezingGate(r, new_phi)

QuarterTurn == PI \div 2
MagnitudeArgs == {0 - 250, 0, Fixed, 1500}
AngleArgs == {k * QuarterTurn + d : k \in (0 - 4 * MaxTurns)..(4 * MaxTurns),
                                    d \in {0 - 1, 0, Fixed}}

inverse ==
    /\ gate.name \in {"D", "S"}
    /\ inverses < MaxInverse
    /\ gate' = IF gate.name = "D" THEN DisplacementGateInverse(gate)
               ELSE SqueezingGateInverse(gate)
    /\ inverses' = inverses + 1
    /\ UNCHANGED <<gate0, embVars>>

----------------------------------------------------------------------------
(* Specifications *)

Idle ==
    /\ pc = "start"
    /\ call = NoCall
    /\ self = None
    /\ raised = "none"
    /\ frame = NoFrame
    /\ circuits = <<>>
    /\ held = <<>>
    /\ results = <<>>
    /\ appends = 0

Init ==
    /\ Idle
    /\ gate = NoGate
    /\ gate0 = NoGate
    /\ inverses = 0

Next ==
    \/ BasisInit
    \/ BasisCreateCircuitStep
    \/ BasisCreateCircuitReturn
    \/ get_circuit
    \/ AngleInit
    \/ LayerSequenceCall
    \/ LayerSequenceStep
    \/ LayerSequenceReturn
    \/ DisplacementInit
    \/ DisplacementCreateCircuitCall
    \/ DisplacementCreateCircuitStep
    \/ DisplacementCreateCircuitReturn
    \/ SqueezingInit
    \/ SqueezingCreateCircuitCall
    \/ SqueezingCreateCircuitStep
    \/ SqueezingCreateCircuitReturn
    \/ CallerAppend

Spec == Init /\ [][Next]_vars

\* The gates alone: a gate is constructed from a (magnitude, angle) pair
\* and inverse is applied to it repeatedly.
InitGate ==
    /\ Idle
    /\ \E m \in MagnitudeArgs, phi \in AngleArgs :
         gate \in {DisplacementGate(m, phi), SqueezingGate(m, phi)}
    /\ gate0 = gate
    /\ inverses = 0

NextGate == inverse

SpecGate == InitGate /\ [][NextGate]_vars

----------------------------------------------------------------------------
(* Properties *)

\* The gate kind of gate_sequence that an emitted rotation stands for.
GateKindOf(name) == CASE name = "rx" -> "RX"
                      [] name = "ry" -> "RY"
                      [] name = "rz" -> "RZ"
                      [] OTHER -> "other"

\* The parameter indices a sequence of one-parameter operations refers to.
UsedIndices(data) == {data[k].params[1][2] : k \in 1..Len(data)}

\* The circuit a running method is filling.
Building == circuits[frame.qc].data

\* C1: for every scheme, a constructor call with num_qubits <= 0 raises the
\* configuration error: no object and no circuit is obtained.
C1_NonPositiveQubitsRejected ==
    (call.cls \in Schemes /\ call.num_qubits <= 0)
        => (raised = "QiskitError" /\ self = None /\ circuits = <<>>)

\* C2: AngleEmbedding called with an empty gate_sequence raises the
\* configuration error, whatever num_qubits and repeat_parameters are.
C2_EmptyGateSequenceRejected ==
    (call.cls = "AngleEmbedding" /\ call.gate_sequence = <<>>)
        => (raised = "QiskitError" /\ self = None)

\* C3: _layer_sequence emits one operation per (layer, qubit) iteration, in
\* layer-major, qubit-minor order: after any number of iterations the
\* operations emitted are as many as the iterations done, a returned
\* circuit has num_qubits * len(gate_sequence) of them, and the operation
\* at position k has kind gate_sequence[k div num_qubits] and qubit
\* k mod num_qubits.
LayerMajor(data, s) ==
    \A k \in 0..(Len(data) - 1) :
        /\ GateKindOf(data[k + 1].gate) = s.gate_sequence[(k \div s.num_qubits) + 1]
        /\ data[k + 1].qubit = k % s.num_qubits

Consecutive(data) ==
    \A k \in 0..(Len(data) - 1) : data[k + 1].params = <<ParameterVectorElement(k)>>

C4_RunningIndex ==
    (self.cls = "AngleEmbedding" /\ ~ self.repeat_parameters) =>
        /\ pc = "call" =>
              /\ frame.index = Len(Building)
              /\ Consecutive(Building)
        /\ \A r \in 1..Len(results) :
              /\ Consecutive(results[r].data)
              /\ UsedIndices(results[r].data)
                    = 0..(self.num_qubits * Len(self.gate_sequence) - 1)
              /\ Cardinality(UsedIndices(results[r].data)) = Len(results[r].data)

C4_Witness ==
    /\ self.cls = "AngleEmbedding"
    /\ ~ self.repeat_parameters
    /\ Len(self.gate_sequence) = 3
    /\ self.num_qubits = 3
    /\ Len(results) >= 1
    /\ results[1].data[9].params = <<ParameterVectorElement(8)>>
    /\ results[1].data[4].params = <<ParameterVectorElement(3)>>

\* C5: with repeat_parameters True every operation on qubit j refers to
\* x[j], the running index stays 0, and a returned circuit uses exactly the
\* num_qubits indices 0 .. num_qubits - 1.
PerQubit(data) ==
    \A k \in 1..Len(data) : data[k].params = <<ParameterVectorElement(data[k].qubit)>>

C5_RepeatedParameters ==
    (self.cls = "AngleEmbedding" /\ self.repeat_parameters) =>
        /\ pc = "call" => (frame.index = 0 /\ PerQubit(Building))
        /\ \A r \in 1..Len(results) :
              /\ PerQubit(results[r].data)
              /\ UsedIndices(results[r].data) = 0..(self.num_qubits - 1)

\* C6: AngleEmbedding raises the configuration error whenever some entry of
\* gate_sequence is outside {RX, RY, RZ}, wherever it stands; a
\* gate_sequence with all entries in that set and num_qubits > 0 is
\* accepted and stored.
C6_InvalidGateKindRejected ==
    call.cls = "AngleEmbedding" =>
        /\ (\E k \in 1..Len(call.gate_sequence) : call.gate_sequence[k] \notin {"RX", "RY", "RZ"})
              => (raised = "QiskitError" /\ self = None /\ pc = "failed")
        /\ ((\A k \in 1..Len(call.gate_sequence) : call.gate_sequence[k] \in {"RX", "RY", "RZ"})
               /\ call.num_qubits > 0)
              => /\ raised = "none"
                 /\ self.cls = "AngleEmbedding"
                 /\ self.gate_sequence = call.gate_sequence
                 /\ self.num_qubits = call.num_qubits
                 /\ self.repeat_parameters = call.flag

C6_Witness ==
    /\ call.cls = "AngleEmbedding"
    /\ call.gate_sequence = <<"RX", "RX", "rx">>
    /\ call.num_qubits = 2
    /\ pc = "failed"
    /\ raised = "QiskitError"

\* C7: the circuit BasisEmbedding builds has num_qubits operations in
\* ascending qubit order, the i-th an rx on qubit i with parameter
\* pi * x[i]; during the build the operations emitted are the first ones
\* of that list.
BasisOperations(data) ==
    \A i \in 0..(Len(data) - 1) :
        data[i + 1] = [gate |-> "rx", params |-> <<<<"pi*x", i>>>>, qubit |-> i]

CVOperations(data, name, amplitude) ==
    \A i \in 0..(Len(data) - 1) :
        /\ data[i + 1].gate = name
        /\ data[i + 1].qubit = i
        /\ data[i + 1].params = IF amplitude THEN <<<<"x", i>>, <<"float", 100>>>>
                                ELSE <<<<"float", 100>>, <<"x", i>>>>

CVGateName == IF call.cls = "DisplacementEmbedding" THEN "D" ELSE "S"

C8_OneGatePerQubit ==
    self.cls \in CVSchemes =>
        /\ self.cls = call.cls
        /\ self.amplitude = call.flag
        /\ pc = "call" =>
              /\ Len(Building) = frame.j
              /\ CVOperations(Building, CVGateName, call.flag)
        /\ \A r \in 1..Len(results) :
              /\ Len(results[r].data) = self.num_qubits
              /\ CVOperations(results[r].data, CVGateName, call.flag)

C8_Witness ==
    /\ self.cls = "DisplacementEmbedding"
    /\ ~ self.amplitude
    /\ self.num_qubits = 3
    /\ Len(results) >= 1
    /\ results[1].data[3].params = <<<<"float", 100>>, <<"x", 2>>>>

\* C9: inverse of a D / S gate keeps the kind and the magnitude and gives
\* the angle (angle + pi) mod 2 pi: an angle in [0, 2 pi) that differs from
\* angle + pi by a whole number of turns, also for a negative angle; after
\* two applications the angle is congruent to the original one modulo 2 pi.
Congruent(a, b) ==
    \E k \in (0 - (MaxTurns + MaxInverse + 1))..(MaxTurns + MaxInverse + 1) :
        a - b = k * (2 * 3142)

C10_FreshCircuitEachInvocation ==
    self # None =>
        /\ \A r \in 1..Len(results) : results[r] = results[1]
        /\ self.num_qubits = call.num_qubits

\* C12: at every step of every build each emitted operation targets a
\* qubit in [0, num_qubits) and refers only to parameter indices below the
\* declared length of the parameter vector: num_qubits for Basis,
\* Displacement, Squeezing and Angle with repeat_parameters True,
\* num_qubits * len(gate_sequence) for Angle with repeat_parameters False.
\* In the non-repeating Angle build the running index never exceeds that
\* length and equals it exactly when the loops have emitted their last gate.
DeclaredLength ==
    IF call.cls = "AngleEmbedding" /\ ~ call.flag
    THEN call.num_qubits * Len(call.gate_sequence)
    ELSE call.num_qubits

\* The parameter indices one operation refers to (float literals have none).
OperationIndices(op) ==
    {op.params[k][2] : k \in {m \in 1..Len(op.params) : op.params[m][1] \in {"x", "pi*x"}}}

InRange(data) ==
    \A k \in 1..Len(data) :
        /\ data[k].qubit >= 0
        /\ data[k].qubit < call.num_qubits
        /\ \A i \in OperationIndices(data[k]) : i >= 0 /\ i < DeclaredLength

C12_IndicesInRange ==
    self # None =>
        /\ pc \in {"init", "call"} => InRange(Building)
        /\ \A r \in 1..Len(results) : InRange(results[r].data)
        /\ (pc = "call" /\ self.cls = "AngleEmbedding" /\ ~ self.repeat_parameters) =>
              /\ frame.index <= DeclaredLength
              /\ (frame.index = DeclaredLength) <=> (frame.layer > Len(self.gate_sequence))

C12_Witness ==
    /\ pc = "call"
    /\ self.cls = "AngleEmbedding"
    /\ ~ self.repeat_parameters
    /\ self.num_qubits = 2
    /\ Len(self.gate_sequence) = 3
    /\ frame.layer = 4
    /\ frame.index = 6
    /\ Len(Building) = 6
    /\ Building[6].qubit = 1

====
